---- MODULE Spec2Model ----
(***************************************************************************)
(* GeographicLib::CircularEngine (include/GeographicLib/CircularEngine.hpp) *)
(* as a state machine: the private constructor and the two SetCoeff         *)
(* overloads (the loading phase run by the friend class SphericalEngine),   *)
(* the four public operator() overloads, the static helper cossin, and the  *)
(* summation primitive Value.  Value is only declared in the header; its    *)
(* body is modelled from the design document.                               *)
(***************************************************************************)
EXTENDS Integers, Sequences, FiniteSets, TLC

(***************************************************************************)
(* Bounds of the model.                                                     *)
(***************************************************************************)
\* the largest maximum order M an engine is created with
MaxM == 1
\* the number of threads that evaluate a published engine concurrently
NThreads == 2
\* cossin is applied to the longitudes 15*k degrees, k in -MaxK..MaxK
MaxK == 48

(***************************************************************************)
(* Math::real.  A real is a fixed-point integer counting units of 1/Unit;   *)
(* a product or a quotient is rounded (towards minus infinity) to the       *)
(* representation, as a floating-point operation rounds its result.         *)
(* Longitudes in degrees are kept as whole degrees.                         *)
(***************************************************************************)
Unit == 1000

FMul(x, y) == (x * y) \div Unit

FDiv(x, y) == (x * Unit) \div y

Abs(x) == IF x < 0 THEN -x ELSE x

\* std::vector<real>(n, v)
Fill(n, v) == [i \in 1..n |-> v]

\* v[m] of a std::vector, m counted from 0
At(v, m) == v[m + 1]

\* v[m] = x of a std::vector, m counted from 0
Put(v, m, x) == [v EXCEPT ![m + 1] = x]

(***************************************************************************)
(* Inputs.                                                                  *)
(***************************************************************************)
\* (norm, scale, a, r, u, t) the reducer creates engines with: the circle of
\* colatitude sine 0.6 on a sphere half the reference radius, and the
\* equator of a sphere twice the reference radius
Circles ==
    { [norm |-> "full",    scale |-> Unit,     a |-> 2 * Unit, r |-> Unit,
       u |-> 600,  t |-> 800],
      [norm |-> "schmidt", scale |-> 2 * Unit, a |-> Unit,     r |-> 2 * Unit,
       u |-> Unit, t |-> 0] }

\* (wc, ws) a SetCoeff call is made with
ValueArgs == { <<0, 0>>, <<Unit, 0>>, <<-500, 2 * Unit>> }

\* (wrc, wrs, wtc, wts) a six-argument SetCoeff call is made with
DerivArgs == { <<0, 0, 0, 0>>, <<Unit, 500, 2 * Unit, -Unit>> }

\* longitudes (degrees) the evaluation operators are called with
EvalLons == { -180, 60 }

\* (coslon, sinlon) pairs the evaluation operators are called with
EvalDirs == { <<500, 866>> }

\* what a read past the end of a std::vector may return
Garbage == { 0, 7 }

Threads == 1..NThreads

\* the thread that loads the engine and evaluates it in the sequential runs
MainThread == CHOOSE th \in Threads : \A o \in Threads : th <= o

(***************************************************************************)
(* The constructor.                                                         *)
(***************************************************************************)
\* the constructor allocating the derivative arrays whatever gradp is
CreateAllArrays(M, gradp, c) ==
    LET q  == FDiv(c.a, c.r)
        uq == FMul(c.u, q)
    IN  [ M |-> M, gradp |-> gradp, norm |-> c.norm, scale |-> c.scale,
          a |-> c.a, r |-> c.r, u |-> c.u, t |-> c.t,
          wc  |-> Fill(M + 1, 0), ws  |-> Fill(M + 1, 0),
          wrc |-> Fill(M + 1, 0), wrs |-> Fill(M + 1, 0),
          wtc |-> Fill(M + 1, 0), wts |-> Fill(M + 1, 0),
          q |-> q, uq |-> uq, uq2 |-> FMul(uq, uq) ]

\* the constructor sizing the value arrays without storing zero in them
CreateUninit(M, gradp, c) ==
    LET q  == FDiv(c.a, c.r)
        uq == FMul(c.u, q)
    IN  [ M |-> M, gradp |-> gradp, norm |-> c.norm, scale |-> c.scale,
          a |-> c.a, r |-> c.r, u |-> c.u, t |-> c.t,
          wc  |-> Fill(M + 1, 7),
          ws  |-> Fill(M + 1, 7),
          wrc |-> Fill(IF gradp THEN M + 1 ELSE 0, 0),
          wrs |-> Fill(IF gradp THEN M + 1 ELSE 0, 0),
          wtc |-> Fill(IF gradp THEN M + 1 ELSE 0, 0),
          wts |-> Fill(IF gradp THEN M + 1 ELSE 0, 0),
          q |-> q, uq |-> uq, uq2 |-> FMul(uq, uq) ]

Create(M, gradp, c) ==
    LET q  == FDiv(c.a, c.r)
        uq == FMul(c.u, q)
    IN  [ M |-> M, gradp |-> gradp, norm |-> c.norm, scale |-> c.scale,
          a |-> c.a, r |-> c.r, u |-> c.u, t |-> c.t,
          wc  |-> Fill(M + 1, 0),
          ws  |-> Fill(M + 1, 0),
          wrc |-> Fill(IF gradp THEN M + 1 ELSE 0, 0),
          wrs |-> Fill(IF gradp THEN M + 1 ELSE 0, 0),
          wtc |-> Fill(IF gradp THEN M + 1 ELSE 0, 0),
          wts |-> Fill(IF gradp THEN M + 1 ELSE 0, 0),
          q |-> q, uq |-> uq, uq2 |-> FMul(uq, uq) ]

(***************************************************************************)
(* SetCoeff(m, wc, ws) and SetCoeff(m, wc, ws, wrc, wrs, wtc, wts) as       *)
(* functions of the engine.                                                 *)
(***************************************************************************)
\* SetCoeff(m, wc, ws) storing ws at order 0 instead of order m
SetCoeff2FirstSin(e, m, w) ==
    [e EXCEPT !.wc = Put(e.wc, m, w[1]), !.ws = Put(e.ws, 0, w[2])]

SetCoeff2(e, m, w) ==
    [e EXCEPT !.wc = Put(e.wc, m, w[1]), !.ws = Put(e.ws, m, w[2])]

\* the six-argument SetCoeff dropping the derivative coefficients always
SetCoeff6NoDeriv(e, m, w, d) ==
    [e EXCEPT !.wc = Put(e.wc, m, w[1]), !.ws = Put(e.ws, m, w[2])]

SetCoeff6(e, m, w, d) ==
    LET e1 == [e EXCEPT !.wc = Put(e.wc, m, w[1]), !.ws = Put(e.ws, m, w[2])]
    IN  IF e.gradp
        THEN [e1 EXCEPT !.wrc = Put(e.wrc, m, d[1]), !.wrs = Put(e.wrs, m, d[2]),
                        !.wtc = Put(e.wtc, m, d[3]), !.wts = Put(e.wts, m, d[4])]
        ELSE e1

(***************************************************************************)
(* cossin.  cos(x * Math::degree<real>()) and sin(x * Math::degree<real>()) *)
(* are the library's cosine and sine of the radian angle nearest x degrees: *)
(* the first quadrant is tabulated every 15 degrees, the other quadrants    *)
(* follow by symmetry, and where the true value is zero the radian-domain   *)
(* call returns a residual of one unit in the last place instead, because   *)
(* the radian angle is not the exact multiple of pi/2.  Only sin(0) is an   *)
(* exact zero.                                                              *)
(***************************************************************************)
QuadrantCos == <<1000, 966, 866, 707, 500, 259, 0>>

\* the exact cosine of y degrees, y a multiple of 15 in 0..360
TrueCos(y) ==
    IF y <= 90 THEN QuadrantCos[(y \div 15) + 1]
    ELSE IF y <= 180 THEN - QuadrantCos[((180 - y) \div 15) + 1]
    ELSE IF y <= 270 THEN - QuadrantCos[((y - 180) \div 15) + 1]
    ELSE QuadrantCos[((360 - y) \div 15) + 1]

\* cos(x * Math::degree<real>())
CosDeg(x) ==
    LET y == x % 360
    IN  IF y = 90 THEN 1 ELSE IF y = 270 THEN -1 ELSE TrueCos(y)

\* sin(x * Math::degree<real>()) for x >= 0
SinDegPos(x) ==
    LET y == x % 360
    IN  IF x = 0 THEN 0
        ELSE IF y = 180 THEN 1
        ELSE IF y = 0 THEN -1
        ELSE TrueCos((y + 270) % 360)

SinDeg(x) == IF x < 0 THEN - SinDegPos(-x) ELSE SinDegPos(x)

\* the wrap with x > 180 for x >= 180
WrapStrict(x) == IF x > 180 THEN x - 360 ELSE IF x < -180 THEN x + 360 ELSE x

\* x = x >= 180 ? x - 360 : (x < -180 ? x + 360 : x)
Wrap(x) == IF x >= 180 THEN x - 360 ELSE IF x < -180 THEN x + 360 ELSE x

\* the cosine without the test for 90 degrees
CosXLib(w) == CosDeg(w)

\* cosx = std::abs(x) == 90 ? 0 : cos(xi)
CosX(w) == IF Abs(w) = 90 THEN 0 ELSE CosDeg(w)

\* sinx = x == -180 ? 0 : sin(xi)
SinX(w) == IF w = -180 THEN 0 ELSE SinDeg(w)

\* cossin(x, cosx, sinx): the wrapped angle and the two results
cossin(x) == [w |-> Wrap(x), cosx |-> CosX(Wrap(x)), sinx |-> SinX(Wrap(x))]

(***************************************************************************)
(* Value(gradp, cl, sl, gradx, grady, gradz).  The header declares it; the  *)
(* body follows the design document: a backward Clenshaw recurrence in m    *)
(* from M down to 0 with the multiplier 2 cl, one pair of registers for the *)
(* cosine channel and one for the sine channel, seeded with zero; with the  *)
(* gradient, the same recurrence on the radial and the colatitude           *)
(* derivative coefficients and, for the longitude derivative, on            *)
(* m ws[m] and - m wc[m]; the three partial derivatives are rotated into    *)
(* cartesian components and everything is multiplied by the scale.          *)
(***************************************************************************)
\* the gradient path taken whenever the caller asks for it
GradPathAsked(e, gradp) == gradp

\* the derivative coefficients are used only by an engine that stores them
GradPath(e, gradp) == e.gradp /\ gradp

\* v[m] read by Value; a read past the end returns whatever is there
Rd(v, m, gb) == IF m + 1 \in DOMAIN v THEN v[m + 1] ELSE gb

\* the elements of the derivative arrays one iteration reads
DerivReads(e, gradp, m) ==
    IF GradPath(e, gradp)
    THEN { <<"wrc", m>>, <<"wrs", m>>, <<"wtc", m>>, <<"wts", m>> }
    ELSE {}

\* the locals of Value on entry
Entry(e, gradp, cl, sl) ==
    [ gradp |-> gradp, cl |-> cl, sl |-> sl, m |-> e.M,
      vc  |-> 0, vc2  |-> 0, vs  |-> 0, vs2  |-> 0,
      vrc |-> 0, vrc2 |-> 0, vrs |-> 0, vrs2 |-> 0,
      vtc |-> 0, vtc2 |-> 0, vts |-> 0, vts2 |-> 0,
      vlc |-> 0, vlc2 |-> 0, vls |-> 0, vls2 |-> 0 ]

\* one step of the recurrence: v[m] = 2 cl v[m+1] - v[m+2] + w[m]
Clenshaw(cl, v1, v2, w) == FMul(2 * cl, v1) - v2 + w

\* the iteration for an order m > 0
ValueIter(e, rg, gb) ==
    LET m  == rg.m
        cl == rg.cl
        r1 == [rg EXCEPT
                 !.m   = m - 1,
                 !.vc  = Clenshaw(cl, rg.vc, rg.vc2, Rd(e.wc, m, gb)),
                 !.vc2 = rg.vc,
                 !.vs  = Clenshaw(cl, rg.vs, rg.vs2, Rd(e.ws, m, gb)),
                 !.vs2 = rg.vs]
    IN  IF GradPath(e, rg.gradp)
        THEN [r1 EXCEPT
                 !.vrc  = Clenshaw(cl, rg.vrc, rg.vrc2, Rd(e.wrc, m, gb)),
                 !.vrc2 = rg.vrc,
                 !.vrs  = Clenshaw(cl, rg.vrs, rg.vrs2, Rd(e.wrs, m, gb)),
                 !.vrs2 = rg.vrs,
                 !.vtc  = Clenshaw(cl, rg.vtc, rg.vtc2, Rd(e.wtc, m, gb)),
                 !.vtc2 = rg.vtc,
                 !.vts  = Clenshaw(cl, rg.vts, rg.vts2, Rd(e.wts, m, gb)),
                 !.vts2 = rg.vts,
                 !.vlc  = Clenshaw(cl, rg.vlc, rg.vlc2, m * Rd(e.ws, m, gb)),
                 !.vlc2 = rg.vlc,
                 !.vls  = Clenshaw(cl, rg.vls, rg.vls2, - m * Rd(e.wc, m, gb)),
                 !.vls2 = rg.vls]
        ELSE r1

\* the sum recovered at m = 0 from the two lowest registers of each channel
Recover(rg, c0, v1, v2, s1) == c0 + FMul(rg.cl, v1) - v2 + FMul(rg.sl, s1)

\* the iteration for m = 0: the value and the gradient Value hands back
ValueLast(e, rg, gb) ==
    LET v  == FMul(e.scale, Recover(rg, Rd(e.wc, 0, gb), rg.vc, rg.vc2, rg.vs))
        dr == FMul(e.scale,
                   Recover(rg, Rd(e.wrc, 0, gb), rg.vrc, rg.vrc2, rg.vrs))
        dt == FMul(e.scale,
                   Recover(rg, Rd(e.wtc, 0, gb), rg.vtc, rg.vtc2, rg.vts))
        dl == FMul(e.scale, Recover(rg, 0, rg.vlc, rg.vlc2, rg.vls))
        \* dV/dr, 1/r dV/dtheta, 1/(r u) dV/dlambda, with 1/r = q/a
        gr == dr
        gt == FDiv(FMul(e.q, dt), e.a)
        gl == FDiv(FMul(e.q, dl), FMul(e.a, e.u))
        h  == FMul(e.u, gr) + FMul(e.t, gt)
    IN  [ value |-> v,
          grad  |-> IF GradPath(e, rg.gradp)
                    THEN << FMul(rg.cl, h) - FMul(rg.sl, gl),
                            FMul(rg.sl, h) + FMul(rg.cl, gl),
                            FMul(e.t, gr) - FMul(e.u, gt) >>
                    ELSE << 0, 0, 0 >> ]

\* Value run from entry to return on its own
RECURSIVE ValueFrom(_, _)
ValueFrom(e, rg) ==
    IF rg.m > 0 THEN ValueFrom(e, ValueIter(e, rg, 0)) ELSE ValueLast(e, rg, 0)

Value(e, gradp, cl, sl) == ValueFrom(e, Entry(e, gradp, cl, sl))

(***************************************************************************)
(* The four public operator() overloads.  A call is the overload and its    *)
(* argument: a longitude in degrees or a (coslon, sinlon) pair.             *)
(***************************************************************************)
Forms == { "lon", "cossin", "lon_grad", "cossin_grad" }

\* the overloads with gradx, grady, gradz pass gradp = true to Value
WithGrad(form) == form \in { "lon_grad", "cossin_grad" }

\* the (coslon, sinlon) an overload hands to Value
Direction(c) ==
    IF c.form \in { "lon", "lon_grad" }
    THEN << cossin(c.arg).cosx, cossin(c.arg).sinx >>
    ELSE c.arg

\* what the caller of an overload receives of Value's outputs: the overloads
\* without gradient pass a dummy for gradx, grady, gradz
Received(form, out) ==
    IF WithGrad(form) THEN out ELSE [ value |-> out.value, grad |-> << >> ]

\* the result of a call evaluated with no other thread running
Alone(e, c) ==
    Received(c.form,
             Value(e, WithGrad(c.form), Direction(c)[1], Direction(c)[2]))

\* an evaluation that applies the scale to the order 0 coefficient in place
AfterEvalInPlace(e) ==
    [e EXCEPT !.wc = Put(e.wc, 0, FMul(e.scale, At(e.wc, 0)))]

\* operator() and Value are const member functions: the engine after a step
\* of an evaluation
AfterEval(e) == e

\* the locals of Value kept in one static record for all threads
SharedFrame(th) == MainThread

\* the activation record holding the locals of thread th's call: every call
\* has automatic variables of its own
Frame(th) == th

(***************************************************************************)
(* State.                                                                   *)
(***************************************************************************)
VARIABLES
    eng,     \* the CircularEngine object: its data members
    phase,   \* "loading": held by the reducer; "frozen": handed to callers
    op,      \* the last SetCoeff call of the loading phase, its arguments,
             \* whether it overwrote an order set before, whether it raised
    hist,    \* per order, the arguments last supplied for it (zero if none)
    pc,      \* per thread: "idle", "value" (inside Value), "done"
    call,    \* per thread: the call it made
    regs,    \* per activation record: the locals of Value
    reads,   \* per thread: the derivative-array elements its call has read
    ret,     \* per thread: what its call returned
    memo,    \* the first call that returned and its result
    red      \* a run of cossin: its argument, wrapped angle and results

vars == << eng, phase, op, hist, pc, call, regs, reads, ret, memo, red >>

NoOp   == [ name |-> "none", m |-> 0, w |-> << >>, d |-> << >>,
            tick |-> 0, over |-> FALSE, raised |-> FALSE ]
NoCall == [ form |-> "none", arg |-> 0 ]
NoRegs == [ Entry([M |-> 0], FALSE, 0, 0) EXCEPT !.m = 0 ]
NoRet  == [ value |-> 0, grad |-> << >> ]
NoMemo == [ call |-> NoCall, ret |-> NoRet, others |-> FALSE ]
NoRed  == [ pc |-> "off", x |-> 0, w |-> 0, cosx |-> 0, sinx |-> 0 ]

ZeroHist(M) == [ k \in 0..M |-> [ w |-> <<0, 0>>, d |-> <<0, 0, 0, 0>> ] ]

IdleThreads ==
    /\ pc    = [ th \in Threads |-> "idle" ]
    /\ call  = [ th \in Threads |-> NoCall ]
    /\ regs  = [ th \in Threads |-> NoRegs ]
    /\ reads = [ th \in Threads |-> {} ]
    /\ ret   = [ th \in Threads |-> NoRet ]
    /\ memo  = NoMemo

\* the state after construction
Init ==
    /\ \E M \in 0..MaxM, gradp \in BOOLEAN, c \in Circles :
          /\ eng  = Create(M, gradp, c)
          /\ hist = ZeroHist(M)
    /\ phase = "loading"
    /\ op = NoOp
    /\ IdleThreads
    /\ red = NoRed

(***************************************************************************)
(* Loading: SphericalEngine, the only friend, calls the private SetCoeff.   *)
(***************************************************************************)
DoSetCoeff2 ==
    /\ phase = "loading"
    /\ \E m \in 0..eng.M, w \in ValueArgs :
          /\ eng'  = SetCoeff2(eng, m, w)
          /\ op'   = [ name |-> "SetCoeff2", m |-> m, w |-> w, d |-> << >>,
                       tick |-> 1 - op.tick, over |-> hist[m].w # <<0, 0>>,
                       raised |-> FALSE ]
          /\ hist' = [ hist EXCEPT ![m].w = w ]
    /\ UNCHANGED << phase, pc, call, regs, reads, ret, memo, red >>

DoSetCoeff6 ==
    /\ phase = "loading"
    /\ \E m \in 0..eng.M, w \in ValueArgs, d \in DerivArgs :
          /\ eng'  = SetCoeff6(eng, m, w, d)
          /\ op'   = [ name |-> "SetCoeff6", m |-> m, w |-> w, d |-> d,
                       tick |-> 1 - op.tick, over |-> hist[m].w # <<0, 0>>,
                       raised |-> FALSE ]
          /\ hist' = [ hist EXCEPT ![m] = [ w |-> w, d |-> d ] ]
    /\ UNCHANGED << phase, pc, call, regs, reads, ret, memo, red >>

\* the reducer returns the engine to its caller: from now on only the
\* public members can be called
Publish ==
    /\ phase = "loading"
    /\ phase' = "frozen"
    /\ op' = NoOp
    /\ UNCHANGED << eng, hist, pc, call, regs, reads, ret, memo, red >>

(***************************************************************************)
(* Evaluation by thread th.                                                 *)
(***************************************************************************)
\* thread th calls overload form with argument arg and enters Value
Enter(th, form, arg) ==
    LET c == [ form |-> form, arg |-> arg ]
    IN  /\ phase = "frozen"
        /\ pc[th] = "idle"
        /\ pc'    = [ pc EXCEPT ![th] = "value" ]
        /\ call'  = [ call EXCEPT ![th] = c ]
        /\ regs'  = [ regs EXCEPT ![Frame(th)] =
                        Entry(eng, WithGrad(form), Direction(c)[1],
                              Direction(c)[2]) ]
        /\ reads' = [ reads EXCEPT ![th] = {} ]
        /\ eng'   = AfterEval(eng)
        /\ UNCHANGED << phase, op, hist, ret, memo, red >>

OpLon(th) == \E lon \in EvalLons : Enter(th, "lon", lon)

OpCosSin(th) == \E dir \in EvalDirs : Enter(th, "cossin", dir)

OpLonGrad(th) == \E lon \in EvalLons : Enter(th, "lon_grad", lon)

OpCosSinGrad(th) == \E dir \in EvalDirs : Enter(th, "cossin_grad", dir)

\* one iteration of the loop of Value, for the order regs.m
ValueStep(th) ==
    LET rg == regs[Frame(th)]
    IN  /\ pc[th] = "value"
        /\ reads' = [ reads EXCEPT ![th] =
                        @ \cup DerivReads(eng, rg.gradp, rg.m) ]
        /\ \E gb \in Garbage :
              IF rg.m > 0
              THEN /\ regs' = [ regs EXCEPT ![Frame(th)] =
                                  ValueIter(eng, rg, gb) ]
                   /\ UNCHANGED << pc, ret >>
              ELSE /\ ret' = [ ret EXCEPT ![th] =
                                 Received(call[th].form,
                                          ValueLast(eng, rg, gb)) ]
                   /\ pc' = [ pc EXCEPT ![th] = "done" ]
                   /\ UNCHANGED regs
        /\ eng' = AfterEval(eng)
        /\ UNCHANGED << phase, op, hist, call, memo, red >>

\* the caller takes the result; with keep, the first result taken is
\* remembered for comparison with later calls, and so is whether a
\* different call returned since
Return(th, keep) ==
    /\ pc[th] = "done"
    /\ pc'    = [ pc EXCEPT ![th] = "idle" ]
    /\ memo'  = IF keep /\ memo = NoMemo
                THEN [ call |-> call[th], ret |-> ret[th], others |-> FALSE ]
                ELSE IF keep /\ memo.call # call[th]
                THEN [ memo EXCEPT !.others = TRUE ]
                ELSE memo
    /\ call'  = [ call EXCEPT ![th] = NoCall ]
    /\ ret'   = [ ret EXCEPT ![th] = NoRet ]
    /\ reads' = [ reads EXCEPT ![th] = {} ]
    /\ UNCHANGED << eng, phase, op, hist, regs, red >>

(***************************************************************************)
(* Spec: an engine is created, loaded, published and evaluated by one       *)
(* thread.                                                                  *)
(***************************************************************************)
Next ==
    \/ DoSetCoeff2
    \/ DoSetCoeff6
    \/ Publish
    \/ OpLon(MainThread)
    \/ OpCosSin(MainThread)
    \/ OpLonGrad(MainThread)
    \/ OpCosSinGrad(MainThread)
    \/ ValueStep(MainThread)
    \/ Return(MainThread, TRUE)

Spec == Init /\ [][Next]_vars

(***************************************************************************)
(* SpecConc: a loaded and published engine is evaluated by all threads,     *)
(* their steps interleaved in every order.                                  *)
(***************************************************************************)
\* SetCoeff(m, ...) for every order m <= k, with the same arguments
RECURSIVE LoadUpTo(_, _, _, _)
LoadUpTo(e, k, w, d) ==
    IF k < 0 THEN e ELSE LoadUpTo(SetCoeff6(e, k, w, d), k - 1, w, d)

InitConc ==
    /\ \E M \in 0..MaxM, gradp \in BOOLEAN, c \in Circles :
          LET w == << -500, 2 * Unit >>
              d == << Unit, 500, 2 * Unit, -Unit >>
          IN  /\ eng  = LoadUpTo(Create(M, gradp, c), M, w, d)
              /\ hist = [ k \in 0..M |-> [ w |-> w, d |-> d ] ]
    /\ phase = "frozen"
    /\ op = NoOp
    /\ IdleThreads
    /\ red = NoRed

NextConc ==
    \E th \in Threads :
        \/ OpLon(th)
        \/ OpCosSin(th)
        \/ OpLonGrad(th)
        \/ OpCosSinGrad(th)
        \/ ValueStep(th)
        \/ Return(th, FALSE)

SpecConc == InitConc /\ [][NextConc]_vars

(***************************************************************************)
(* SpecAngle: cossin applied to each longitude 15 k, k in -MaxK..MaxK.      *)
(***************************************************************************)
InitAngle ==
    /\ eng = Create(0, FALSE, CHOOSE c \in Circles : c.norm = "full")
    /\ hist = ZeroHist(0)
    /\ phase = "loading"
    /\ op = NoOp
    /\ IdleThreads
    /\ \E k \in -MaxK..MaxK :
          red = [ pc |-> "call", x |-> 15 * k, w |-> 0, cosx |-> 0, sinx |-> 0 ]

Reduce ==
    /\ red.pc = "call"
    /\ red' = [ pc |-> "done", x |-> red.x, w |-> cossin(red.x).w,
                cosx |-> cossin(red.x).cosx, sinx |-> cossin(red.x).sinx ]
    /\ UNCHANGED << eng, phase, op, hist, pc, call, regs, reads, ret, memo >>

NextAngle == Reduce

SpecAngle == InitAngle /\ [][NextAngle]_vars

(***************************************************************************)
(* Properties.                                                              *)
(***************************************************************************)
DerivArrays == { "wrc", "wrs", "wtc", "wts" }

Scalars == { "M", "gradp", "norm", "scale", "a", "r", "u", "t",
             "q", "uq", "uq2" }

AllArrays == { "wc", "ws" } \cup DerivArrays

\* every coefficient the engine holds is zero
AllZero(e) == \A f \in AllArrays : \A i \in DOMAIN e[f] : e[f][i] = 0

\* C1: once the engine is published, no step changes any of its members
\* (M, gradp, norm, scale, a, r, u, t, q, uq, uq2 and the six arrays):
\* every step of each of the four operator() overloads leaves them as they
\* were, whatever the argument and however many evaluations came before.
C1_FrozenUnchanged ==
    [][phase = "frozen" =>
         /\ \A f \in Scalars \cup AllArrays : eng'[f] = eng[f]
         /\ phase' = "frozen"]_vars

\* a gradient evaluation has returned on a published engine with non-zero
\* coefficients, after an earlier evaluation had returned
C1_Witness ==
    /\ phase = "frozen"
    /\ pc[MainThread] = "done"
    /\ call[MainThread].form = "lon_grad"
    /\ memo # NoMemo
    /\ ~ AllZero(eng)

\* C2: on a published engine evaluated by several threads, in every
\* interleaving each step changes the state of at most one thread and never
\* the engine, and a call that has returned has the result the same call
\* has when it is evaluated alone.
C2_ThreadSafe ==
    /\ [](\A th \in Threads :
             pc[th] = "done" => ret[th] = Alone(eng, call[th]))
    /\ [][/\ eng' = eng
          /\ \E th \in Threads : \A o \in Threads \ {th} :
                /\ pc'[o] = pc[o]
                /\ call'[o] = call[o]
                /\ regs'[o] = regs[o]
                /\ reads'[o] = reads[o]
                /\ ret'[o] = ret[o]]_vars

\* one thread's call has returned while another thread, which made a
\* different call, is in the middle of the loop of Value
C2_Witness ==
    \E th \in Threads, o \in Threads :
        /\ th # o
        /\ pc[th] = "done"
        /\ pc[o] = "value"
        /\ call[o] # call[th]
        /\ regs[o].m < eng.M
        /\ call[th].form = "cossin_grad"
        /\ eng.gradp

\* C3: a call that returns on a published engine returns the value (and,
\* in the gradient forms, the gradx, grady, gradz) that the same overload
\* returned for the same argument the first time, whatever other calls
\* were evaluated in between.
C3_Deterministic ==
    \A th \in Threads :
        (pc[th] = "done" /\ memo.call = call[th]) => ret[th] = memo.ret

\* the remembered gradient call has returned a second time, with a
\* non-zero result, after a different call returned in between
C3_Witness ==
    /\ pc[MainThread] = "done"
    /\ memo.call = call[MainThread]
    /\ memo.others
    /\ WithGrad(memo.call.form)
    /\ eng.gradp
    /\ memo.ret.value # 0
    /\ memo.ret.grad # << 0, 0, 0 >>

\* C4: after the six-argument SetCoeff(m, wc, ws, wrc, wrs, wtc, wts), wc
\* and ws are stored at index m; the four derivative coefficients are stored
\* at index m when gradp is true; when gradp is false they are dropped, no
\* error is raised and the four derivative arrays still have length 0.
C4_SetCoeff6 ==
    op.name = "SetCoeff6" =>
        /\ At(eng.wc, op.m) = op.w[1]
        /\ At(eng.ws, op.m) = op.w[2]
        /\ ~ op.raised
        /\ eng.gradp =>
              /\ At(eng.wrc, op.m) = op.d[1]
              /\ At(eng.wrs, op.m) = op.d[2]
              /\ At(eng.wtc, op.m) = op.d[3]
              /\ At(eng.wts, op.m) = op.d[4]
        /\ ~ eng.gradp => \A f \in DerivArrays : Len(eng[f]) = 0

\* the six-argument SetCoeff was called with non-zero derivative
\* coefficients on an engine created without gradient
C4_Witness ==
    /\ op.name = "SetCoeff6"
    /\ ~ eng.gradp
    /\ op.d # << 0, 0, 0, 0 >>
    /\ op.w # << 0, 0 >>

\* two SetCoeff calls for different orders give the same engine in either
\* order
Commute(e) ==
    \A m1 \in 0..e.M, m2 \in 0..e.M :
        m1 < m2 =>
            \A w1 \in ValueArgs, w2 \in ValueArgs,
               d1 \in DerivArgs, d2 \in DerivArgs :
                /\ SetCoeff6(SetCoeff6(e, m1, w1, d1), m2, w2, d2)
                     = SetCoeff6(SetCoeff6(e, m2, w2, d2), m1, w1, d1)
                /\ SetCoeff2(SetCoeff2(e, m1, w1), m2, w2)
                     = SetCoeff2(SetCoeff2(e, m2, w2), m1, w1)
                /\ SetCoeff6(SetCoeff2(e, m1, w1), m2, w2, d2)
                     = SetCoeff2(SetCoeff6(e, m2, w2, d2), m1, w1)
                /\ SetCoeff2(SetCoeff6(e, m1, w1, d1), m2, w2)
                     = SetCoeff6(SetCoeff2(e, m2, w2), m1, w1, d1)

\* C5: a SetCoeff call for order m changes the entries at index m only (no
\* other index, no scalar member, not q, uq, uq2, no array length); hence
\* after any sequence of calls the entries at each order are the arguments
\* last supplied for that order (zero if none), and two calls for different
\* orders give the same engine in either order.
C5_LastWriteWins ==
    /\ [](/\ \A k \in 0..eng.M :
                /\ << At(eng.wc, k), At(eng.ws, k) >> = hist[k].w
                /\ eng.gradp =>
                      << At(eng.wrc, k), At(eng.wrs, k),
                         At(eng.wtc, k), At(eng.wts, k) >> = hist[k].d
           /\ phase = "loading" => Commute(eng))
    /\ [][(op' # op /\ op'.name # "none") =>
            /\ \A f \in Scalars : eng'[f] = eng[f]
            /\ \A f \in AllArrays :
                  /\ Len(eng'[f]) = Len(eng[f])
                  /\ \A i \in DOMAIN eng[f] :
                        i # op'.m + 1 => eng'[f][i] = eng[f][i]]_vars

\* order 0 was set again, overwriting what an earlier call had stored,
\* after order 1 had been set, on an engine with gradient
C5_Witness ==
    /\ phase = "loading"
    /\ eng.M >= 1
    /\ eng.gradp
    /\ op.name = "SetCoeff2"
    /\ op.m = 0
    /\ op.over
    /\ hist[1].w # << 0, 0 >>
    /\ hist[0].d # << 0, 0, 0, 0 >>

\* C6 as stated: for every longitude x, the angle cossin takes the cosine
\* and sine of lies in [-180, 180).
C6_AnyInputWrapped ==
    red.pc = "done" => (-180 <= red.w /\ red.w < 180)

\* C6, amended: for every longitude x in [-540, 540), the angle cossin
\* takes the cosine and sine of lies in [-180, 180).
C6_OneTurnWrapped ==
    (red.pc = "done" /\ -540 <= red.x /\ red.x < 540) =>
        (-180 <= red.w /\ red.w < 180)

\* cossin has reduced 180
C6_Witness ==
    /\ red.pc = "done"
    /\ red.x = 180
    /\ red.w = -180

\* C7: cossin gives cos = 0 exactly for the longitude 90 and for every
\* longitude whose wrapped angle is 90 or -90, sin = 0 exactly for the
\* longitude -180, and for the longitude 180 the pair it gives for -180,
\* since 180 wraps to -180.
C7_BoundaryExact ==
    red.pc = "done" =>
        /\ (red.x = 90 \/ Abs(red.w) = 90) => red.cosx = 0
        /\ red.x = -180 => red.sinx = 0
        /\ red.x = 180 =>
              /\ red.w = -180
              /\ << red.cosx, red.sinx >>
                   = << cossin(-180).cosx, cossin(-180).sinx >>

\* cossin has reduced -270, which wraps to 90
C7_Witness ==
    /\ red.pc = "done"
    /\ red.x = -270
    /\ red.w = 90

\* C8: the constructor gives wc and ws M + 1 zeros each, and the four
\* derivative arrays M + 1 zeros each when gradp is true and no element
\* when it is false; no SetCoeff call and no evaluation changes these
\* lengths.
C8_ArraySizes ==
    /\ Len(eng.wc) = eng.M + 1
    /\ Len(eng.ws) = eng.M + 1
    /\ \A f \in DerivArrays :
          Len(eng[f]) = IF eng.gradp THEN eng.M + 1 ELSE 0
    /\ (phase = "loading" /\ op = NoOp) => AllZero(eng)

\* a gradient evaluation has returned on an engine created without
\* gradient, of order 1, that was loaded by both SetCoeff overloads
C8_Witness ==
    /\ phase = "frozen"
    /\ pc[MainThread] = "done"
    /\ WithGrad(call[MainThread].form)
    /\ ~ eng.gradp
    /\ eng.M = MaxM
    /\ hist[0].w # << 0, 0 >>
    /\ hist[0].d # << 0, 0, 0, 0 >>

\* the engine was never given a non-zero coefficient
NothingLoaded ==
    \A k \in 0..eng.M :
        hist[k].w = << 0, 0 >> /\ hist[k].d = << 0, 0, 0, 0 >>

====
